---- MODULE Spec2Model ----
(***************************************************************************)
(* Model of src/app.py: a Streamlit page that resolves a stock name to a   *)
(* code (search_stock_code), loads the latest rows of the code's table     *)
(* from SQLite (load_from_db), derives the MACD oscillator of the          *)
(* institution+foreign net-buy ratio (process_data, calculate_ema),        *)
(* summarises it (calculate_stats) and renders the result.                 *)
(*                                                                         *)
(* Floating-point values are modelled as exact rationals <<n, d>> with     *)
(* d >= 0 in lowest terms, extended with the IEEE special values the       *)
(* code can produce: <<0,0>> is NaN (also SQL NULL), <<1,0>> is +inf and   *)
(* <<-1,0>> is -inf.  Rounding is not modelled.                            *)
(***************************************************************************)
EXTENDS Integers, Sequences, FiniteSets, TLC

VARIABLES
    directory,  \* pykrx listing: sequence of [ticker, name], in ticker-list order
    db,         \* stock_data2.db: code -> NoTable or Table(rows in storage order)
    session,    \* st.session_state
    cache,      \* st.cache_data store of search_stock_code: keyword -> return value
    view,       \* what the last script run computed and rendered
    pc,         \* "idle", or "rerun" after st.rerun() was requested
    call        \* a direct application of one of the module's functions

vars == <<directory, db, session, cache, view, pc, call>>

\* Python's None and a present value: a sequence of length 0 or 1
None == << >>
Some(x) == <<x>>
IsNone(o) == Len(o) = 0
Get(o) == o[1]

----------------------------------------------------------------------------
(* Numbers *)

NaN == <<0, 0>>
PosInf == <<1, 0>>
NegInf == <<-1, 0>>

Abs(n) == IF n < 0 THEN -n ELSE n
Sign(n) == IF n < 0 THEN -1 ELSE IF n > 0 THEN 1 ELSE 0

RECURSIVE GCD(_, _)
GCD(a, b) == IF b = 0 THEN a ELSE GCD(b, a % b)

Norm(n, d) ==
    IF d = 0 THEN <<Sign(n), 0>>
    ELSE LET g == GCD(Abs(n), Abs(d))
         IN  <<Sign(d) * (n \div g), Abs(d) \div g>>

Num(i) == <<i, 1>>
IsNaN(x) == x = NaN
IsInf(x) == x[2] = 0 /\ x[1] # 0
IsFinite(x) == x[2] > 0

RNeg(x) == <<-x[1], x[2]>>

RAdd(x, y) ==
    IF IsNaN(x) \/ IsNaN(y) THEN NaN
    ELSE IF IsInf(x) /\ IsInf(y) THEN (IF x = y THEN x ELSE NaN)
    ELSE IF IsInf(x) THEN x
    ELSE IF IsInf(y) THEN y
    ELSE LET g == GCD(x[2], y[2])
             l == (x[2] \div g) * y[2]
         IN  Norm(x[1] * (l \div x[2]) + y[1] * (l \div y[2]), l)

RSub(x, y) == RAdd(x, RNeg(y))

RMul(x, y) ==
    IF IsNaN(x) \/ IsNaN(y) THEN NaN
    ELSE IF IsInf(x) \/ IsInf(y)
         THEN <<Sign(x[1]) * Sign(y[1]), 0>>
    ELSE LET g1 == GCD(Abs(x[1]), y[2])
             g2 == GCD(Abs(y[1]), x[2])
         IN  Norm((x[1] \div g1) * (y[1] \div g2), (x[2] \div g2) * (y[2] \div g1))

RDiv(x, y) ==
    IF IsNaN(x) \/ IsNaN(y) THEN NaN
    ELSE IF IsInf(y) THEN (IF IsInf(x) THEN NaN ELSE Num(0))
    ELSE IF y[1] = 0 THEN <<Sign(x[1]), 0>>
    ELSE IF IsInf(x) THEN <<Sign(x[1]) * Sign(y[1]), 0>>
    ELSE RMul(x, <<Sign(y[1]) * y[2], Abs(y[1])>>)

\* x < y for non-NaN values
RLess(x, y) ==
    IF IsInf(x) \/ IsInf(y) THEN
        IF x = y THEN FALSE
        ELSE IF x = NegInf \/ y = PosInf THEN TRUE
        ELSE FALSE
    ELSE RSub(x, y)[1] < 0

----------------------------------------------------------------------------
(* calculate_ema: values.ewm(span=days, adjust=False).mean() *)

Alpha(days) == Norm(2, days + 1)

\* One step of the ewm mean with adjust=False, ignore_na=False: st is
\* <<weighted, old_wt>> after the previous position, cur the current input.
\* a variant weighting the previous average by alpha and the new value by 1 - alpha
EwmUpdateSwapped(weighted, old_wt, cur, alpha) ==
    IF ~IsNaN(cur)
    THEN <<RAdd(RMul(alpha, weighted), RMul(RSub(Num(1), alpha), cur)), Num(1)>>
    ELSE <<weighted, old_wt>>

EwmUpdate(weighted, old_wt, cur, alpha) ==
    IF ~IsNaN(cur)
    THEN IF weighted # cur
         THEN <<RDiv(RAdd(RMul(old_wt, weighted), RMul(alpha, cur)),
                     RAdd(old_wt, alpha)), Num(1)>>
         ELSE <<weighted, Num(1)>>
    ELSE <<weighted, old_wt>>

EwmStep(st, cur, alpha) ==
    IF ~IsNaN(st[1])
    THEN EwmUpdate(st[1], RMul(st[2], RSub(Num(1), alpha)), cur, alpha)
    ELSE IF ~IsNaN(cur) THEN <<cur, st[2]>>
    ELSE st

\* <<outputs at positions lo..hi, state after hi>>, st being the state after
\* lo - 1; the positions are taken in order, split in halves
RECURSIVE EwmRange(_, _, _, _, _)
EwmJoin(left, right) == <<left[1] \o right[1], right[2]>>

EwmRight(values, mid, hi, left, alpha) ==
    EwmJoin(left, EwmRange(values, mid + 1, hi, left[2], alpha))

EwmOne(st) == <<<<st[1]>>, st>>

EwmRange(values, lo, hi, st, alpha) ==
    IF lo = hi THEN EwmOne(EwmStep(st, values[lo], alpha))
    ELSE EwmRight(values, (lo + hi) \div 2, hi,
                  EwmRange(values, lo, (lo + hi) \div 2, st, alpha), alpha)

calculate_ema(values, days) ==
    IF Len(values) = 0 THEN << >>
    ELSE IF Len(values) = 1 THEN <<values[1]>>
    ELSE <<values[1]>> \o
         EwmRange(values, 2, Len(values), <<values[1], Num(1)>>, Alpha(days))[1]

----------------------------------------------------------------------------
(* load_from_db *)

\* a code without a table, and a table holding rows
NoTable == None
Table(rows) == Some(rows)
LIMIT == 77

Min(a, b) == IF a < b THEN a ELSE b

Row(date, cap, inst5, for5) ==
    [date |-> date, cap |-> cap, inst5 |-> inst5, for5 |-> for5]

\* rows ordered by date, latest first (dates are distinct)
OrderByDateDesc(rows) ==
    LET n == Len(rows)
        rank == [i \in 1..n |-> Cardinality({j \in 1..n : rows[j].date > rows[i].date})]
    IN  [k \in 1..n |-> rows[CHOOSE i \in 1..n : rank[i] = k - 1]]

\* DataFrame.sort_index(): ascending by date
sort_index(rows) ==
    LET n == Len(rows)
        rank == [i \in 1..n |-> Cardinality({j \in 1..n : rows[j].date < rows[i].date})]
    IN  [k \in 1..n |-> rows[CHOOSE i \in 1..n : rank[i] = k - 1]]

\* sort_index(ascending=False)
sort_index_desc(rows) == OrderByDateDesc(rows)

\* a variant with the limit one short: LIMIT 76
QueryShort(rows) ==
    SubSeq(OrderByDateDesc(rows), 1, Min(LIMIT - 1, Len(rows)))

\* SELECT * FROM stock_<code> ORDER BY date DESC LIMIT 77
Query(rows) ==
    LET sorted == OrderByDateDesc(rows)
    IN  SubSeq(sorted, 1, Min(LIMIT, Len(sorted)))

\* a variant closing the connection after the read instead of in `finally`
load_from_db_NoFinally(database, stock_code) ==
    IF database[stock_code] = NoTable
    THEN [df |-> << >>, events |-> <<"connect", "read_sql", "DatabaseError", "st.error">>]
    ELSE [df |-> sort_index(Query(Get(database[stock_code]))),
          events |-> <<"connect", "read_sql", "close">>]

\* The frame returned, and the calls made on the way, in order.
load_from_db(database, stock_code) ==
    IF database[stock_code] = NoTable
    THEN [df |-> << >>,
          events |-> <<"connect", "read_sql", "DatabaseError", "st.error", "close">>]
    ELSE [df |-> sort_index(Query(Get(database[stock_code]))),
          events |-> <<"connect", "read_sql", "close">>]

----------------------------------------------------------------------------
(* process_data *)

EmaFastSpan == 12
EmaSlowSpan == 26
SignalSpan == 9

SignalRatio(r) == RMul(RDiv(RAdd(r.inst5, r.for5), r.cap), Num(100))

Sub2(a, b) == [i \in 1..Len(a) |-> RSub(a[i], b[i])]

\* data[column] = ..., one assignment of lines 45-52 each
WithRatio(df) ==
    [i \in 1..Len(df) |->
        [date |-> df[i].date, cap |-> df[i].cap, inst5 |-> df[i].inst5,
         for5 |-> df[i].for5, ratio |-> SignalRatio(df[i])]]

Column(df, name) == [i \in 1..Len(df) |-> df[i][name]]

AddColumn(df, name, values) ==
    [i \in 1..Len(df) |-> [c \in DOMAIN df[i] \cup {name} |->
                              IF c = name THEN values[i] ELSE df[i][c]]]

WithEma12(df) == AddColumn(df, "ema12", calculate_ema(Column(df, "ratio"), EmaFastSpan))
\* a variant smoothing the slow average with the fast span
WithEma26_FastSpan(df) ==
    AddColumn(df, "ema26", calculate_ema(Column(df, "ratio"), EmaFastSpan))
WithEma26(df) == AddColumn(df, "ema26", calculate_ema(Column(df, "ratio"), EmaSlowSpan))
WithMacd(df) == AddColumn(df, "macd", Sub2(Column(df, "ema12"), Column(df, "ema26")))
WithSignal(df) == AddColumn(df, "signal", calculate_ema(Column(df, "macd"), SignalSpan))
WithOsc(df) == AddColumn(df, "osc", Sub2(Column(df, "macd"), Column(df, "signal")))

\* The derived columns of a non-empty frame.
Derive(df) == WithOsc(WithSignal(WithMacd(WithEma26(WithEma12(WithRatio(df))))))

ProcessLoaded(loaded) ==
    [load |-> loaded.events,
     data |-> IF Len(loaded.df) = 0 THEN None ELSE Some(Derive(loaded.df))]

\* [load: what load_from_db did, data: the returned frame or None]
process_data(database, stock_code) == ProcessLoaded(load_from_db(database, stock_code))

----------------------------------------------------------------------------
(* calculate_stats *)

DropNaN(s) == SelectSeq(s, LAMBDA x : ~IsNaN(x))

CountLess(v, x) == Cardinality({j \in 1..Len(v) : RLess(v[j], x)})
CountAtMost(v, x) == Cardinality({j \in 1..Len(v) : ~RLess(x, v[j])})

\* the k-th value of v in ascending order
KthSmallest(v, k) ==
    CHOOSE x \in {v[i] : i \in 1..Len(v)} : CountLess(v, x) < k /\ k <= CountAtMost(v, x)

Lerp(a, b, frac) == RAdd(a, RMul(RSub(b, a), frac))

\* Series.quantile(q), q = qn/qd, over the values v without NaN: linear
\* interpolation at rank q*(n-1) of the sorted values
QuantileOf(v, qn, qd) ==
    IF Len(v) = 0 THEN NaN
    ELSE IF (qn * (Len(v) - 1)) % qd = 0
    THEN KthSmallest(v, (qn * (Len(v) - 1)) \div qd + 1)
    ELSE Lerp(KthSmallest(v, (qn * (Len(v) - 1)) \div qd + 1),
              KthSmallest(v, (qn * (Len(v) - 1)) \div qd + 2),
              Norm((qn * (Len(v) - 1)) % qd, qd))

Quantile(s, qn, qd) == QuantileOf(DropNaN(s), qn, qd)

RECURSIVE SumRange(_, _, _)
SumRange(v, lo, hi) ==
    IF lo = hi THEN v[lo]
    ELSE RAdd(SumRange(v, lo, (lo + hi) \div 2), SumRange(v, (lo + hi) \div 2 + 1, hi))

\* Series.mean() over the values v without NaN
MeanOf(v) == IF Len(v) = 0 THEN NaN ELSE RDiv(SumRange(v, 1, Len(v)), Num(Len(v)))
Mean(s) == MeanOf(DropNaN(s))

StatsOf(v) ==
    [top10 |-> QuantileOf(v, 9, 10),
     top25 |-> QuantileOf(v, 3, 4),
     mean |-> MeanOf(v),
     bottom25 |-> QuantileOf(v, 1, 4),
     bottom10 |-> QuantileOf(v, 1, 10)]

calculate_stats(data) == StatsOf(DropNaN(Column(data, "osc")))

----------------------------------------------------------------------------
(* search_stock_code *)

\* {get_market_ticker_name(ticker): ticker for ticker in tickers}: a later
\* ticker with the same name replaces an earlier one
stock_info(listing) ==
    LET names == {listing[i].name : i \in 1..Len(listing)}
        last(nm) == CHOOSE i \in 1..Len(listing) :
                        /\ listing[i].name = nm
                        /\ \A j \in 1..Len(listing) : listing[j].name = nm => j <= i
    IN  [nm \in names |-> listing[last(nm)].ticker]

\* Python's `keyword in name` on strings
Contains(name, keyword) ==
    \E i \in 0..(Len(name) - Len(keyword)) :
        SubSeq(name, i + 1, i + Len(keyword)) = keyword

\* a variant without the exact-match branch
search_stock_code_NoExact(listing, keyword) ==
    IF {nm \in DOMAIN stock_info(listing) : Contains(nm, keyword)} # {}
    THEN <<None, Some([nm \in {n \in DOMAIN stock_info(listing) : Contains(n, keyword)} |->
                          stock_info(listing)[nm]])>>
    ELSE <<None, None>>

\* <<exact_match, similar_stocks>>, each None or a dict (a function name -> code)
search_stock_code(listing, keyword) ==
    LET info == stock_info(listing)
        similar == {nm \in DOMAIN info : Contains(nm, keyword)}
    IN  IF keyword \in DOMAIN info
        THEN <<Some([nm \in {keyword} |-> info[keyword]]), None>>
        ELSE IF similar # {}
        THEN <<None, Some([nm \in similar |-> info[nm]])>>
        ELSE <<None, None>>

\* @st.cache_data: the stored return value for a keyword seen before
CachedSearch(store, listing, keyword) ==
    IF keyword \in DOMAIN store THEN store[keyword]
    ELSE search_stock_code(listing, keyword)

CacheAfter(store, listing, keyword) ==
    [k \in DOMAIN store \cup {keyword} |-> CachedSearch(store, listing, k)]

----------------------------------------------------------------------------
(* The page script *)

\* f"{name} ({code})"
FormatOption(name, code) == name \o <<" ", "(">> \o code \o <<")">>

\* selected_option.rsplit(' (', 1), then code[:-1]
ParseOption(option) ==
    LET at == CHOOSE i \in 1..(Len(option) - 1) :
                  /\ SubSeq(option, i, i + 1) = <<" ", "(">>
                  /\ \A j \in (i + 1)..(Len(option) - 1) :
                         SubSeq(option, j, j + 1) # <<" ", "(">>
        code == SubSeq(option, at + 2, Len(option))
    IN  [name |-> SubSeq(option, 1, at - 1),
         code |-> SubSeq(code, 1, Len(code) - 1)]

\* truth value of an optional string, and of an optional dict
TruthyStr(o) == ~IsNone(o) /\ Len(Get(o)) # 0
TruthyDict(o) == ~IsNone(o) /\ DOMAIN Get(o) # {}

Options(sess) ==
    IF TruthyDict(sess.similar_stocks)
    THEN Some({FormatOption(nm, Get(sess.similar_stocks)[nm]) :
                   nm \in DOMAIN Get(sess.similar_stocks)})
    ELSE None

\* a run stopped by st.rerun(): nothing below the button was rendered
BlankView ==
    [messages |-> {}, options |-> None, header |-> None, load |-> << >>,
     data |-> None, stats |-> None, graph |-> FALSE, table |-> << >>]

\* lines 181-211
Head10(d) == SubSeq(d, 1, Min(10, Len(d)))

\* messages shown by load_from_db itself (line 31)
LoadMessages(load) ==
    IF \E i \in 1..Len(load) : load[i] = "st.error" THEN {"error_no_table"} ELSE {}

\* lines 188-211, pd being the result of process_data
ShowResult(base, pd) ==
    IF ~IsNone(pd.data) /\ Len(Get(pd.data)) # 0
    THEN [base EXCEPT
            !.load = pd.load,
            !.messages = @ \cup LoadMessages(pd.load),
            !.data = pd.data,
            !.stats = Some(calculate_stats(Get(pd.data))),
            !.graph = TRUE,
            !.table = Head10(sort_index_desc(Get(pd.data)))]
    ELSE [base EXCEPT
            !.load = pd.load,
            !.messages = @ \cup LoadMessages(pd.load) \cup {"error_failed"}]

\* lines 181-211
AnalysisSection(sess, database, base) ==
    IF ~TruthyStr(sess.selected_stock_code) THEN base
    ELSE ShowResult(
            [base EXCEPT !.header = Some(<<sess.selected_stock_name,
                                           sess.selected_stock_code>>)],
            process_data(database, Get(sess.selected_stock_code)))

\* lines 165-211 of a run in which the second button is not pressed
RenderRest(sess, database, messages) ==
    AnalysisSection(sess, database,
        [BlankView EXCEPT !.messages = messages, !.options = Options(sess)])

----------------------------------------------------------------------------
(* Inputs *)

MaxListed == 2      \* tickers in the listing
MaxRows == 2        \* rows of a table with freely chosen values
MaxExtra == 1       \* rows beyond LIMIT in a long table
MaxLen == 5         \* length of a series given to calculate_ema directly
MaxSpan == 3        \* span given to calculate_ema directly

Digits == <<"1", "2", "3", "4", "5", "6", "7", "8", "9">>
Ticker(k) == <<"0", Digits[k]>>
TickerSet == {Ticker(k) : k \in 1..(MaxListed + 1)}

NameSet == {<<"a">>, <<"a", "b">>, <<"b", " ", "(", "a">>}
Keywords == {<< >>, <<"a">>, <<"b">>, <<"a", "b">>, <<"c">>}

RECURSIVE SeqsUpTo(_, _)
SeqsUpTo(S, n) ==
    IF n = 0 THEN {<< >>}
    ELSE LET shorter == SeqsUpTo(S, n - 1)
         IN  shorter \cup {Append(q, x) : q \in {r \in shorter : Len(r) = n - 1}, x \in S}

Listings ==
    {[i \in 1..Len(names) |-> [ticker |-> Ticker(i), name |-> names[i]]] :
        names \in SeqsUpTo(NameSet, MaxListed)}

\* values of one stored row: <<cap, inst5, for5>>
RowValues ==
    {<<Num(100), Num(2), Num(1)>>, <<Num(100), Num(-1), Num(2)>>,
     <<Num(-50), Num(2), Num(1)>>, <<Num(0), Num(2), Num(1)>>,
     <<Num(0), Num(-1), Num(1)>>, <<Num(100), NaN, Num(1)>>,
     <<NaN, Num(2), Num(1)>>, <<Num(1000000), Num(100), Num(50)>>}

\* storage order of the rows whose dates are 1..n in date order
Ascending == "ascending"
Descending == "descending"
Stored(rows, order) ==
    IF order = Ascending THEN rows
    ELSE [i \in 1..Len(rows) |-> rows[Len(rows) + 1 - i]]

ShortTables ==
    {Stored([i \in 1..Len(vs) |-> Row(i, vs[i][1], vs[i][2], vs[i][3])], order) :
        vs \in SeqsUpTo(RowValues, MaxRows), order \in {Ascending, Descending}}

\* n rows: the rows older than the latest LIMIT carry `old`, the latest row
\* carries `last`, the rows between carry `mid`
LongTable(n, old, mid, last) ==
    [i \in 1..n |->
        LET v == IF i = n THEN last ELSE IF i <= n - LIMIT THEN old ELSE mid
        IN  Row(i, v[1], v[2], v[3])]

LongLens == (LIMIT - 1)..(LIMIT + MaxExtra)
LongValues ==
    {<<Num(100), Num(2), Num(1)>>, <<Num(1000000), Num(100), Num(50)>>,
     <<Num(100), NaN, Num(1)>>}

\* and two tables of 50 and of 100 fully populated rows
ExampleTables ==
    {Stored(LongTable(n, <<Num(100), Num(2), Num(1)>>,
                      <<Num(1000000), Num(100), Num(50)>>,
                      <<Num(100), Num(2), Num(1)>>), Descending) : n \in {50, 100}}

LongTables ==
    ExampleTables \cup
    {Stored(LongTable(n, old, mid, last), order) :
        n \in LongLens, old \in LongValues, mid \in LongValues, last \in LongValues,
        order \in {Ascending, Descending}}

Tables == {NoTable} \cup {Table(rows) : rows \in ShortTables \cup LongTables}

\* the database of the interactive specification: one table of two days,
\* one code without a table, one empty table, in turn
UiTable(k) ==
    IF k % 3 = 1
    THEN Table(<<Row(2, Num(100), Num(-1), Num(2)), Row(1, Num(100), Num(2), Num(1))>>)
    ELSE IF k % 3 = 2 THEN NoTable
    ELSE Table(<< >>)

UiDb == [t \in TickerSet |-> UiTable(CHOOSE k \in 1..(MaxListed + 1) : Ticker(k) = t)]

NoCall == [fn |-> "none"]

----------------------------------------------------------------------------
(* The interactive page *)

InitSession ==
    [selected_stock_code |-> None, selected_stock_name |-> None, similar_stocks |-> None]

Init ==
    /\ directory \in Listings
    /\ db = UiDb
    /\ session = InitSession
    /\ cache = << >>
    /\ view = RenderRest(InitSession, UiDb, {})
    /\ pc = "idle"
    /\ call = NoCall

\* "search" pressed with an empty text field (lines 161-162)
ClickSearchEmpty ==
    /\ pc = "idle"
    /\ view' = RenderRest(session, db, {"info_enter_name"})
    /\ UNCHANGED <<directory, db, session, cache, pc, call>>

\* "search" pressed, exact match (lines 145-150): the run ends in st.rerun()
ClickSearchExact(keyword) ==
    LET found == CachedSearch(cache, directory, keyword)
    IN  /\ pc = "idle"
        /\ Len(keyword) # 0
        /\ TruthyDict(found[1])
        /\ cache' = CacheAfter(cache, directory, keyword)
        /\ session' = [selected_stock_name |-> Some(keyword),
                       selected_stock_code |-> Some(Get(found[1])[keyword]),
                       similar_stocks |-> None]
        /\ view' = BlankView
        /\ pc' = "rerun"
        /\ UNCHANGED <<directory, db, call>>

\* a variant that keeps the previous selection (line 155 missing)
ClickSearchSimilar_KeepCode(keyword) ==
    /\ pc = "idle"
    /\ Len(keyword) # 0
    /\ ~TruthyDict(CachedSearch(cache, directory, keyword)[1])
    /\ TruthyDict(CachedSearch(cache, directory, keyword)[2])
    /\ cache' = CacheAfter(cache, directory, keyword)
    /\ session' = [session EXCEPT !.similar_stocks = CachedSearch(cache, directory, keyword)[2]]
    /\ view' = RenderRest(session', db, {"warning_no_exact_match"})
    /\ UNCHANGED <<directory, db, pc, call>>

\* "search" pressed, substring matches only (lines 151-155)
ClickSearchSimilar(keyword) ==
    LET found == CachedSearch(cache, directory, keyword)
        after == [session EXCEPT !.similar_stocks = found[2],
                                 !.selected_stock_code = None]
    IN  /\ pc = "idle"
        /\ Len(keyword) # 0
        /\ ~TruthyDict(found[1])
        /\ TruthyDict(found[2])
        /\ cache' = CacheAfter(cache, directory, keyword)
        /\ session' = after
        /\ view' = RenderRest(after, db, {"warning_no_exact_match"})
        /\ UNCHANGED <<directory, db, pc, call>>

\* "search" pressed, nothing found (lines 156-160)
ClickSearchNone(keyword) ==
    LET found == CachedSearch(cache, directory, keyword)
        after == [session EXCEPT !.similar_stocks = None,
                                 !.selected_stock_code = None]
    IN  /\ pc = "idle"
        /\ Len(keyword) # 0
        /\ ~TruthyDict(found[1])
        /\ ~TruthyDict(found[2])
        /\ cache' = CacheAfter(cache, directory, keyword)
        /\ session' = after
        /\ view' = RenderRest(after, db, {"error_not_found"})
        /\ UNCHANGED <<directory, db, pc, call>>

\* "analyse this one" pressed under the candidate list (lines 165-178)
ClickConfirm(option) ==
    LET parsed == ParseOption(option)
    IN  /\ pc = "idle"
        /\ TruthyDict(session.similar_stocks)
        /\ ~IsNone(view.options)
        /\ option \in Get(view.options)
        /\ session' = [selected_stock_name |-> Some(parsed.name),
                       selected_stock_code |-> Some(parsed.code),
                       similar_stocks |-> None]
        /\ view' = BlankView
        /\ pc' = "rerun"
        /\ UNCHANGED <<directory, db, cache, call>>

\* the run st.rerun() asked for: no button is pressed
Rerun ==
    /\ pc = "rerun"
    /\ view' = RenderRest(session, db, {})
    /\ pc' = "idle"
    /\ UNCHANGED <<directory, db, session, cache, call>>

\* a run caused by a widget other than the buttons
Refresh ==
    /\ pc = "idle"
    /\ view' = RenderRest(session, db, {})
    /\ UNCHANGED <<directory, db, session, cache, pc, call>>

Next ==
    \/ ClickSearchEmpty
    \/ \E keyword \in Keywords : ClickSearchExact(keyword)
    \/ \E keyword \in Keywords : ClickSearchSimilar(keyword)
    \/ \E keyword \in Keywords : ClickSearchNone(keyword)
    \/ \E option \in (IF IsNone(view.options) THEN {} ELSE Get(view.options)) :
           ClickConfirm(option)
    \/ Rerun
    \/ Refresh

Spec == Init /\ [][Next]_vars

----------------------------------------------------------------------------
(* The analysis of one selected code, over the tables a database may hold *)

Selected == Ticker(1)

InitPipeline ==
    /\ directory = <<[ticker |-> Selected, name |-> <<"a">>]>>
    /\ \E table \in Tables : db = [t \in TickerSet |-> IF t = Selected THEN table ELSE NoTable]
    /\ session = [selected_stock_code |-> Some(Selected),
                  selected_stock_name |-> Some(<<"a">>),
                  similar_stocks |-> None]
    /\ cache = << >>
    /\ view = BlankView
    /\ pc = "rerun"
    /\ call = NoCall

NextPipeline == Rerun

SpecPipeline == InitPipeline /\ [][NextPipeline]_vars

----------------------------------------------------------------------------
(* calculate_ema applied to a series *)

EmaValues == {NaN, Num(5), Num(10), Num(15)}

InitEma ==
    /\ directory = << >>
    /\ db = UiDb
    /\ session = InitSession
    /\ cache = << >>
    /\ view = BlankView
    /\ pc = "idle"
    /\ \E values \in SeqsUpTo(EmaValues, MaxLen), days \in 1..MaxSpan :
           call = [fn |-> "calculate_ema", values |-> values, days |-> days,
                   result |-> None]

ApplyEma ==
    /\ call.fn = "calculate_ema"
    /\ IsNone(call.result)
    /\ call' = [call EXCEPT !.result = Some(calculate_ema(call.values, call.days))]
    /\ UNCHANGED <<directory, db, session, cache, view, pc>>

NextEma == ApplyEma

SpecEma == InitEma /\ [][NextEma]_vars

----------------------------------------------------------------------------
(* search_stock_code applied to a keyword, behind its cache *)

InitSearch ==
    /\ directory \in Listings
    /\ db = UiDb
    /\ session = InitSession
    /\ cache = << >>
    /\ view = BlankView
    /\ pc = "idle"
    /\ call = NoCall

ApplySearch(keyword) ==
    /\ call' = [fn |-> "search_stock_code", keyword |-> keyword,
                result |-> CachedSearch(cache, directory, keyword)]
    /\ cache' = CacheAfter(cache, directory, keyword)
    /\ UNCHANGED <<directory, db, session, view, pc>>

NextSearch == \E keyword \in Keywords : ApplySearch(keyword)

SpecSearch == InitSearch /\ [][NextSearch]_vars

----------------------------------------------------------------------------
(* Claims about calculate_ema (SpecEma) *)

EmaApplied == call.fn = "calculate_ema" /\ ~IsNone(call.result)

\* the position of the first defined input, Len + 1 when there is none
FirstDefined(values) ==
    IF \A i \in 1..Len(values) : IsNaN(values[i]) THEN Len(values) + 1
    ELSE CHOOSE i \in 1..Len(values) :
             ~IsNaN(values[i]) /\ \A j \in 1..(i - 1) : IsNaN(values[j])

\* the undefined inputs are all leading
LeadingOnly(values) ==
    \A i \in 1..Len(values) : i >= FirstDefined(values) => ~IsNaN(values[i])

\* out follows the unadjusted recurrence with alpha = 2/(days+1) over values,
\* seeded at position first
FollowsFrom(values, days, out, first) ==
    /\ Len(out) = Len(values)
    /\ \A i \in 1..Len(values) :
          IF i < first THEN IsNaN(out[i])
          ELSE IF i = first THEN out[i] = values[i]
          ELSE out[i] = RAdd(RMul(Norm(2, days + 1), values[i]),
                             RMul(Norm(days - 1, days + 1), out[i - 1]))

FollowsRecurrence(values, days, out) ==
    FollowsFrom(values, days, out, FirstDefined(values))

ExampleSeries == <<NaN, NaN, Num(5), Num(10), Num(15)>>

\* C4 as stated: the recurrence, and the example [undef, undef, 5, 10, 15] with
\* span 2 giving [undef, undef, 5, 10, 40/3].
C4_AsStated ==
    (EmaApplied /\ LeadingOnly(call.values)) =>
        /\ FollowsRecurrence(call.values, call.days, Get(call.result))
        /\ (call.values = ExampleSeries /\ call.days = 2) =>
               Get(call.result) = <<NaN, NaN, Num(5), Num(10), <<40, 3>>>>

\* C4 amended: for a series whose undefined values are all leading,
\* calculate_ema returns a series of the same length that is undefined before
\* the first defined input, equals that input there, and is
\* alpha*v_t + (1-alpha)*ema_{t-1} afterwards, alpha = 2/(span+1); the example
\* [undef, undef, 5, 10, 15] with span 2 gives [undef, undef, 5, 25/3, 115/9].
C4_Recurrence ==
    (EmaApplied /\ LeadingOnly(call.values)) =>
        /\ FollowsRecurrence(call.values, call.days, Get(call.result))
        /\ (call.values = ExampleSeries /\ call.days = 2) =>
               Get(call.result) = <<NaN, NaN, Num(5), <<25, 3>>, <<115, 9>>>>

C4_Witness ==
    /\ EmaApplied
    /\ call.values = ExampleSeries
    /\ call.days = 2
    /\ Get(call.result)[5] = <<115, 9>>

----------------------------------------------------------------------------
(* Claims about search_stock_code (SpecSearch) *)

SearchApplied == call.fn = "search_stock_code"

ListedNames == {directory[i].name : i \in 1..Len(directory)}

\* keyword occurs in name at some offset
Occurs(keyword, name) ==
    \E k \in 0..Len(name) :
        /\ k + Len(keyword) <= Len(name)
        /\ \A m \in 1..Len(keyword) : name[k + m] = keyword[m]

\* the code the directory holds for a name: that of the last ticker so named
CodeOf(name) ==
    directory[CHOOSE i \in 1..Len(directory) :
                  /\ directory[i].name = name
                  /\ \A j \in (i + 1)..Len(directory) : directory[j].name # name].ticker

Candidates(keyword) == {nm \in ListedNames : Occurs(keyword, nm)}

IsDictOf(o, names) ==
    /\ ~IsNone(o)
    /\ DOMAIN Get(o) = names
    /\ \A nm \in names : Get(o)[nm] = CodeOf(nm)

\* C7: search_stock_code returns (exact, none) with the single pair of the
\* keyword when a name equals the keyword, else (none, candidates) with all
\* and only the names containing the keyword when there is one, else
\* (none, none); never an exact match together with candidates.
C7_ThreeOutcomes ==
    SearchApplied =>
        /\ ~(~IsNone(call.result[1]) /\ ~IsNone(call.result[2]))
        /\ IF call.keyword \in ListedNames
           THEN IsDictOf(call.result[1], {call.keyword}) /\ IsNone(call.result[2])
           ELSE IF Candidates(call.keyword) # {}
           THEN IsNone(call.result[1])
                /\ IsDictOf(call.result[2], Candidates(call.keyword))
           ELSE IsNone(call.result[1]) /\ IsNone(call.result[2])

\* an exact match found although other names contain the keyword too
C7_Witness ==
    /\ SearchApplied
    /\ ~IsNone(call.result[1])
    /\ Cardinality(Candidates(call.keyword)) > 1

----------------------------------------------------------------------------
(* Claims about the analysis of a table (SpecPipeline) *)

\* a run has reached the analysis section
Analysed == pc = "idle" /\ ~IsNone(view.header)

SelectedCode == Get(session.selected_stock_code)
HasTable == ~IsNone(db[SelectedCode])
StoredRows == IF HasTable THEN Get(db[SelectedCode]) ELSE << >>
Shown == Get(view.data)

Defined(r) == ~IsNaN(r.cap) /\ ~IsNaN(r.inst5) /\ ~IsNaN(r.for5)
FullyPopulated(rows) == \A i \in 1..Len(rows) : Defined(rows[i])
PositiveCaps(rows) == \A i \in 1..Len(rows) : IsFinite(rows[i].cap) /\ rows[i].cap[1] > 0

\* the stored rows with fewer than 77 later rows
Latest(rows) ==
    {i \in 1..Len(rows) :
        Cardinality({j \in 1..Len(rows) : rows[j].date > rows[i].date}) < 77}

SameRecord(shown, stored) ==
    /\ shown.date = stored.date
    /\ shown.cap = stored.cap
    /\ shown.inst5 = stored.inst5
    /\ shown.for5 = stored.for5

\* C1: of n fully populated stored records with distinct dates, the records
\* exposed are exactly the min(77, n) with the latest dates, in ascending
\* date order, none added and none twice.
C1_LatestWindow ==
    (Analysed /\ HasTable /\ FullyPopulated(StoredRows)) =>
        IF Len(StoredRows) = 0 THEN IsNone(view.data)
        ELSE /\ ~IsNone(view.data)
             /\ Len(Shown) = (IF Len(StoredRows) < 77 THEN Len(StoredRows) ELSE 77)
             /\ \A i \in 1..(Len(Shown) - 1) : Shown[i].date < Shown[i + 1].date
             /\ \A i \in 1..Len(Shown) :
                    \E j \in Latest(StoredRows) : SameRecord(Shown[i], StoredRows[j])

\* 100 fully populated records stored, the latest 77 exposed
C1_Witness ==
    /\ Analysed
    /\ Len(StoredRows) = 100
    /\ FullyPopulated(StoredRows)
    /\ ~IsNone(view.data)
    /\ Len(Shown) = 77
    /\ Shown[1].date = 24
    /\ Shown[77].date = 100

\* C2: a retained record with market capitalization <= 0 makes the derivation
\* fail: no frame is returned that holds such a record.
C2_NonPositiveCapFails ==
    (Analysed /\ ~IsNone(view.data)) =>
        \A i \in 1..Len(Shown) :
            ~(IsFinite(Shown[i].cap) /\ Shown[i].cap[1] <= 0)

\* C3: when no populated record is retained the derivation fails, no summary
\* is computed, and no summary of NaNs is ever returned.
C3_EmptyFails ==
    Analysed =>
        /\ (\A j \in Latest(StoredRows) : ~Defined(StoredRows[j])) =>
               (IsNone(view.data) /\ IsNone(view.stats) /\ "error_failed" \in view.messages)
        /\ ~IsNone(view.stats) => ~IsNaN(Get(view.stats).mean)

NoUndefined(r) ==
    /\ Defined(r)
    /\ ~IsNaN(r.ratio) /\ ~IsNaN(r.ema12) /\ ~IsNaN(r.ema26)
    /\ ~IsNaN(r.macd) /\ ~IsNaN(r.signal) /\ ~IsNaN(r.osc)

\* C5: every returned record is fully populated: a record with an undefined
\* 5-day sum or market cap is not among them, and no derived field is undefined.
C5_FullyPopulated ==
    (Analysed /\ ~IsNone(view.data)) =>
        \A i \in 1..Len(Shown) : NoUndefined(Shown[i])

RecurrenceOn(rows, input, days, output) ==
    LeadingOnly(Column(rows, input)) =>
        FollowsRecurrence(Column(rows, input), days, Column(rows, output))

\* C6: in every returned record signalRatio = (inst5 + for5) / cap * 100
\* (100 and 50 over 1,000,000 give 0.015), emaFast and emaSlow are the span-12
\* and span-26 EMAs of signalRatio, macd = emaFast - emaSlow, macdSignal is
\* the span-9 EMA of macd, and oscillator = macd - macdSignal.
C6_Derivation ==
    (Analysed /\ ~IsNone(view.data)) =>
        /\ \A i \in 1..Len(Shown) :
              /\ (Defined(Shown[i]) /\ Shown[i].cap # Num(0)) =>
                     /\ IsFinite(Shown[i].ratio)
                     /\ RMul(Shown[i].ratio, Shown[i].cap) =
                            RMul(RAdd(Shown[i].inst5, Shown[i].for5), Num(100))
              /\ (Shown[i].inst5 = Num(100) /\ Shown[i].for5 = Num(50)
                     /\ Shown[i].cap = Num(1000000)) => Shown[i].ratio = <<3, 200>>
              /\ Shown[i].macd = RSub(Shown[i].ema12, Shown[i].ema26)
              /\ Shown[i].osc = RSub(Shown[i].macd, Shown[i].signal)
        /\ RecurrenceOn(Shown, "ratio", 12, "ema12")
        /\ RecurrenceOn(Shown, "ratio", 26, "ema26")
        /\ RecurrenceOn(Shown, "macd", 9, "signal")

\* a populated frame whose latest record moves the oscillator off zero
C6_Witness ==
    /\ Analysed
    /\ ~IsNone(view.data)
    /\ Len(Shown) = 77
    /\ FullyPopulated(Shown)
    /\ Shown[76].ratio = <<3, 200>>
    /\ Shown[77].ratio = Num(3)
    /\ IsFinite(Shown[77].osc)
    /\ Shown[77].osc[1] > 0

\* the oscillator of the k-th stored record by date, computed over the
\* stored records up to it
WholeSeriesOsc(rows, k) == Derive(SubSeq(sort_index(rows), 1, k))[k].osc

\* C8: truncation to 77 comes after the EMA/MACD stage: with more than 77
\* populated records stored, an exposed record carries the oscillator of the
\* recurrences run over the whole stored series (stated here of the oldest
\* exposed record, where a re-seeded average shows first).
C8_TruncationLast ==
    (Analysed /\ ~IsNone(view.data) /\ Len(StoredRows) > 77
        /\ FullyPopulated(StoredRows) /\ PositiveCaps(StoredRows)) =>
        Shown[1].osc = WholeSeriesOsc(StoredRows, Len(StoredRows) - 76)

----------------------------------------------------------------------------
(* Claims about the page (Spec) *)

MissingTableTrace == <<"connect", "read_sql", "DatabaseError", "st.error", "close">>

Count(events, e) == Cardinality({i \in 1..Len(events) : events[i] = e})

C9_State ==
    /\ (Analysed /\ ~HasTable) =>
           /\ view.load = MissingTableTrace
           /\ "error_no_table" \in view.messages
           /\ "error_failed" \in view.messages
           /\ IsNone(view.data)
           /\ IsNone(view.stats)
           /\ ~view.graph
    /\ Analysed =>
           /\ Count(view.load, "connect") = 1
           /\ Count(view.load, "close") = 1
           /\ view.load[Len(view.load)] = "close"

\* a run that analysed a code without a table left the session as it was
C9_Step ==
    (pc' = "idle" /\ ~IsNone(view'.header)
        /\ IsNone(db'[Get(session'.selected_stock_code)])) => session' = session

\* C9: for a code without a table load_from_db reports the error, closes the
\* connection and returns an empty frame; process_data returns None, no
\* statistics or chart are made, the failure message is shown and the
\* session is unchanged; the connection is closed on both paths.
C9_MissingTable == [](C9_State) /\ [][C9_Step]_vars

C9_Witness ==
    /\ Analysed
    /\ ~HasTable
    /\ "error_failed" \in view.messages
    /\ view.load = MissingTableTrace

CodeSet == TruthyStr(session.selected_stock_code)
ListSet == TruthyDict(session.similar_stocks)

C10_State ==
    /\ ~(CodeSet /\ ListSet)
    /\ ~(~IsNone(view.options) /\ ~IsNone(view.header))

\* the branch a run took shows in the message it displayed
C10_Step ==
    /\ ("warning_no_exact_match" \in view'.messages \/ "error_not_found" \in view'.messages)
           => IsNone(session'.selected_stock_code)
    /\ "info_enter_name" \in view'.messages => session' = session

\* C10: the session is always one of Idle, AmbiguousChoice or Resolved:
\* selected_stock_code and similar_stocks are never both set, so the
\* candidate list and the analysis are never shown together; a search with
\* text that finds no exact match clears selected_stock_code, and a search
\* with empty text changes no session field.
C10_OneOfThree == [](C10_State) /\ [][C10_Step]_vars

\* a resolved session turned into a choice among candidates by a new search
C10_Witness ==
    /\ ListSet
    /\ ~CodeSet
    /\ ~IsNone(session.selected_stock_name)
    /\ ~IsNone(view.options)
    /\ "warning_no_exact_match" \in view.messages

====
